---- MODULE Spec2Model ----
(***************************************************************************)
(* A model of the lexer (CharStream, Luthor) and of the recursive-descent  *)
(* parser (Parsicle) of src/parsicle.js.                                   *)
(*                                                                         *)
(* JavaScript values are modelled as records:                              *)
(*   a string        [js |-> "string", v |-> <<characters>>]               *)
(*   a number        [js |-> "number", v |-> <<characters of its decimal   *)
(*                    notation>>]                                          *)
(*   null, undefined [js |-> "null"], [js |-> "undefined"]                 *)
(*   a token         [type |-> ..., value |-> string or number]            *)
(*   an AST node     [type |-> ..., ...] as built by Nodes                 *)
(* Every function of the source that reads or advances the stream is an    *)
(* operator from the stream's state to a result [st, val, err]: the state  *)
(* after the call, the value returned and the exception thrown, if any.    *)
(***************************************************************************)
EXTENDS Integers, Sequences, FiniteSets, TLC

VARIABLES stream, ast, tokens, pc, error, seen

vars == <<stream, ast, tokens, pc, error, seen>>

----------------------------------------------------------------------------
(* JavaScript values *)

Str(chars) == [js |-> "string", v |-> chars]

Num(chars) == [js |-> "number", v |-> chars]

Null == [js |-> "null"]

Undefined == [js |-> "undefined"]

Arr(elems) == [js |-> "array", v |-> elems]

(* Exceptions *)

NoErr == [name |-> "none"]

IllegalSyntaxError(line, col, message) ==
  [name |-> "IllegalSyntaxError", line |-> line, col |-> col, message |-> message]

TypeError == [name |-> "TypeError"]

Msg(text, arg) == [text |-> text, arg |-> arg]

(* Results of a call: the stream after it, the value returned, the exception *)

Ok(st, val) == [st |-> st, val |-> val, err |-> NoErr]

Throw(st, err) == [st |-> st, val |-> Undefined, err |-> err]

Failed(r) == r.err.name # "none"

----------------------------------------------------------------------------
(* CharStream *)

CharStream(src) == [src |-> src, pos |-> 0, line |-> 1, col |-> 0, current |-> Null]

stringPeek(st) == IF st.pos < Len(st.src) THEN st.src[st.pos + 1] ELSE ""

(* next() that counts a newline as one more column *)
CharStream_nextNoReset(st) ==
  LET char == stringPeek(st)
  IN  [st EXCEPT !.pos = @ + 1,
                 !.line = IF char = "\n" THEN @ + 1 ELSE @,
                 !.col = @ + 1]

CharStream_next(st) ==
  LET char == stringPeek(st)
  IN  [st EXCEPT !.pos = @ + 1,
                 !.line = IF char = "\n" THEN @ + 1 ELSE @,
                 !.col = IF char = "\n" THEN 0 ELSE @ + 1]

CharStream_eof(st) == stringPeek(st) = ""

CharStream_die(st, msg) == Throw(st, IllegalSyntaxError(st.line, st.col, msg))

----------------------------------------------------------------------------
(* Matchers: each predicate is the set of characters it accepts *)

Digits == {"0", "1", "2", "3", "4", "5", "6", "7", "8", "9"}

Letters ==
  {"a", "b", "c", "d", "e", "f", "g", "h", "i", "j", "k", "l", "m",
   "n", "o", "p", "q", "r", "s", "t", "u", "v", "w", "x", "y", "z",
   "A", "B", "C", "D", "E", "F", "G", "H", "I", "J", "K", "L", "M",
   "N", "O", "P", "Q", "R", "S", "T", "U", "V", "W", "X", "Y", "Z"}

isWhiteSpace == {" ", "\t", "\n"}

isComment(char) == char = "#"

isEOL(char) == char = "\n"

isStringBoundary(char) == char = "\""

isDigit == Digits

isStartOfIdentifier == Letters \cup {"_"}

isIdentifier == isStartOfIdentifier \cup Digits \cup {"-", "?", "!"}

isPunctuation == {",", ":", ";", "(", ")", "{", "}", "[", "]"}

isOperator == {"+", "-", "*", "/", "%", "=", "&", "|", "<", ">", "!", "~", "^"}

Keywords ==
  {<<"r", "u", "l", "e">>, <<"c", "o", "n", "f", "o", "r", "m">>,
   <<"t", "r", "u", "e">>, <<"f", "a", "l", "s", "e">>}

isKeyword(identifier) == identifier \in Keywords

----------------------------------------------------------------------------
(* Tokens *)

token(type, value) == [type |-> type, value |-> value]

Tokens_string(value) == token("str", value)

Tokens_numeric(value) == token("num", value)

Tokens_identifier(value) == token("id", value)

Tokens_keyword(value) == token("kw", value)

Tokens_operator(value) == token("op", value)

Tokens_punctuation(value) == token("punc", value)

----------------------------------------------------------------------------
(* Results in sequence: K applied to the outcome r of a call, unless the   *)
(* call threw                                                              *)
Then(r, K(_)) == IF Failed(r) THEN r ELSE K(r)

(* the outcome r with F applied to the value returned *)
MapVal(r, F(_)) == Ok(r.st, F(r.val))

(* str = char + the rest read *)
Prepend(char, r) == Ok(r.st, <<char>> \o r.val)

----------------------------------------------------------------------------
(* Values *)

RECURSIVE readWhile(_, _)
readWhile(st, predicate) ==
  IF ~CharStream_eof(st) /\ stringPeek(st) \in predicate
  THEN Prepend(stringPeek(st), readWhile(CharStream_next(st), predicate))
  ELSE Ok(st, <<>>)

RECURSIVE readWhileNotEOL(_)
readWhileNotEOL(st) ==
  IF ~CharStream_eof(st) /\ ~isEOL(stringPeek(st))
  THEN readWhileNotEOL(CharStream_next(st))
  ELSE st

skipRestOfLine(st) == CharStream_next(readWhileNotEOL(st))

RECURSIVE readNumeric(_, _)

(* readNumeric without the limit of one dot *)
readNumericAnyDots(st, hasDot) ==
  IF ~CharStream_eof(st) /\ (stringPeek(st) = "." \/ stringPeek(st) \in isDigit)
  THEN Prepend(stringPeek(st), readNumeric(CharStream_next(st), hasDot))
  ELSE Ok(st, <<>>)

(* the predicate isNumeric of readNumber, which sets hasDot at the first dot *)
isNumeric(char, hasDot) == IF char = "." THEN ~hasDot ELSE char \in isDigit

(* the readWhile of readNumber, whose predicate isNumeric carries hasDot *)
readNumeric(st, hasDot) ==
  IF ~CharStream_eof(st) /\ isNumeric(stringPeek(st), hasDot)
  THEN Prepend(stringPeek(st),
               readNumeric(CharStream_next(st), hasDot \/ stringPeek(st) = "."))
  ELSE Ok(st, <<>>)

RECURSIVE stripLeadingZeros(_)
stripLeadingZeros(ds) ==
  IF Len(ds) > 1 /\ Head(ds) = "0" THEN stripLeadingZeros(Tail(ds)) ELSE ds

RECURSIVE stripTrailingZeros(_)
stripTrailingZeros(ds) ==
  IF Len(ds) > 0 /\ ds[Len(ds)] = "0"
  THEN stripTrailingZeros(SubSeq(ds, 1, Len(ds) - 1))
  ELSE ds

(* the least position from `from` on where number has a dot, or its end *)
dotFrom(number, from) ==
  IF \E i \in from..Len(number) : number[i] = "."
  THEN CHOOSE i \in from..Len(number) :
         number[i] = "." /\ \A j \in from..(i - 1) : number[j] # "."
  ELSE Len(number) + 1

(* the number with its integer digits int and its fraction digits frac, in *)
(* the decimal notation JavaScript prints it in                            *)
decimal(int, frac) == Num(IF frac = <<>> THEN int ELSE int \o <<".">> \o frac)

(* parseFloat of a digit run with dots: the digits, the first dot and the  *)
(* digits up to the next dot                                               *)
parseFloat(number) ==
  decimal(stripLeadingZeros(SubSeq(number, 1, dotFrom(number, 1) - 1)),
          stripTrailingZeros(SubSeq(number, dotFrom(number, 1) + 1,
                                    dotFrom(number, dotFrom(number, 1) + 1) - 1)))

readNumber(st) == MapVal(readNumeric(st, FALSE), parseFloat)

readIdentifier(st) == readWhile(st, isIdentifier)

RECURSIVE readStringLoop(_, _, _)
readStringLoop(st, escaped, str) ==
  IF CharStream_eof(st) THEN Ok(st, str)
  ELSE IF escaped
    THEN readStringLoop(CharStream_next(st), FALSE, str \o <<stringPeek(st)>>)
  ELSE IF stringPeek(st) = "\\" THEN readStringLoop(CharStream_next(st), TRUE, str)
  ELSE IF isStringBoundary(stringPeek(st)) THEN Ok(CharStream_next(st), str)
  ELSE readStringLoop(CharStream_next(st), FALSE, str \o <<stringPeek(st)>>)

readString(st) == readStringLoop(CharStream_next(st), FALSE, <<>>)

readOperator(st) == readWhile(st, isOperator)

----------------------------------------------------------------------------
(* Luthor *)

keywordOrIdentifier(identifier) ==
  IF isKeyword(identifier) THEN Tokens_keyword(Str(identifier))
  ELSE Tokens_identifier(Str(identifier))

stringToken(chars) == Tokens_string(Str(chars))

operatorToken(chars) == Tokens_operator(Str(chars))

RECURSIVE readNextToken(_)

(* readNextToken once the white space is skipped *)
readTokenAt(st) ==
  IF CharStream_eof(st) THEN Ok(st, Null)
  ELSE IF isComment(stringPeek(st)) THEN readNextToken(skipRestOfLine(st))
  ELSE IF isStringBoundary(stringPeek(st))
    THEN MapVal(readString(CharStream_next(st)), stringToken)
  ELSE IF stringPeek(st) \in isDigit THEN MapVal(readNumber(st), Tokens_numeric)
  ELSE IF stringPeek(st) \in isStartOfIdentifier
    THEN MapVal(readIdentifier(st), keywordOrIdentifier)
  ELSE IF stringPeek(st) \in isPunctuation
    THEN Ok(CharStream_next(st), Tokens_punctuation(Str(<<stringPeek(st)>>)))
  ELSE IF stringPeek(st) \in isOperator THEN MapVal(readOperator(st), operatorToken)
  ELSE CharStream_die(st, Msg("Illegal character at this position: ",
                              Str(<<stringPeek(st)>>)))

readNextToken(st) == readTokenAt(readWhile(st, isWhiteSpace).st)

(* current = the token read *)
cache(r) == Ok([r.st EXCEPT !.current = r.val], r.val)

(* peek() that reads a token at every call and keeps none *)
Luthor_peekUncached(st) == readNextToken(st)

Luthor_peek(st) ==
  IF st.current # Null THEN Ok(st, st.current)
  ELSE Then(readNextToken(st), cache)

Luthor_next(st) ==
  IF st.current # Null
  THEN Ok([st EXCEPT !.current = Null], st.current)
  ELSE readNextToken([st EXCEPT !.current = Null])

isEnd(r) == Ok(r.st, r.val = Null)

Luthor_eof(st) == Then(Luthor_peek(st), isEnd)

Luthor_die(st, message) == CharStream_die(st, message)

----------------------------------------------------------------------------
(* Types *)

checkTypeAndValue(tok, type, value) ==
  tok # Null /\ type = tok.type /\ (value = Undefined \/ value = tok.value)

Types_isPunc(tok, value) == checkTypeAndValue(tok, "punc", value)

Types_isOp(tok, value) == checkTypeAndValue(tok, "op", value)

Types_isId(tok, value) == checkTypeAndValue(tok, "id", value)

Types_isKw(tok, value) == checkTypeAndValue(tok, "kw", value)

(* token.type of a null token throws a TypeError *)
Types_isOneOfType(tok, types) ==
  IF tok = Null
  THEN [val |-> FALSE, err |-> TypeError]
  ELSE [val |-> tok.type \in types, err |-> NoErr]

(* PRECEDENCE: operators and their binding powers *)
PRECEDENCE ==
  (<<"=">> :> 1) @@
  (<<"|", "|">> :> 5) @@
  (<<"&", "&">> :> 10) @@
  (<<"<">> :> 15) @@ (<<">">> :> 15) @@ (<<"<", "=">> :> 15) @@
  (<<">", "=">> :> 15) @@ (<<"=", "=">> :> 15) @@ (<<"!", "=">> :> 15) @@
  (<<"+">> :> 20) @@ (<<"-">> :> 20) @@
  (<<"*">> :> 25) @@ (<<"/">> :> 25) @@ (<<"%">> :> 25)

(* climbing that starts only at the outermost level: left to right *)
bindsTighterFlat(op, thisPrecedence) ==
  op.v \in DOMAIN PRECEDENCE /\ thisPrecedence = 0

(* thatPrecedence >= thisPrecedence: an operator of equal power climbs too *)
bindsTighterOrEqual(op, thisPrecedence) ==
  op.v \in DOMAIN PRECEDENCE /\ PRECEDENCE[op.v] >= thisPrecedence

(* thatPrecedence > thisPrecedence, where PRECEDENCE[op] is undefined for *)
(* an operator that is not in the table and undefined > n is false        *)
bindsTighter(op, thisPrecedence) ==
  op.v \in DOMAIN PRECEDENCE /\ PRECEDENCE[op.v] > thisPrecedence

(* Nodes *)

Nodes_blockStatement(body) == [type |-> "block", body |-> body]

Nodes_invocation(node, args) == [type |-> "call", func |-> node, args |-> args]

Nodes_rule(name, args, body) ==
  [type |-> "rule", name |-> name, args |-> args, body |-> body]

(* an assignment for every operator that starts with '=' *)
Nodes_binaryExpressionPrefix(op, left, right) ==
  [type |-> IF Head(op.v) = "=" THEN "assign" ELSE "binaryExpression",
   op |-> op, left |-> left, right |-> right]

Nodes_binaryExpression(op, left, right) ==
  [type |-> IF op = Str(<<"=">>) THEN "assign" ELSE "binaryExpression",
   op |-> op, left |-> left, right |-> right]

Nodes_bool(value) == [type |-> "bool", value |-> value]

----------------------------------------------------------------------------
(* Parsicle *)

die(st) ==
  Then(Luthor_peek(st), LAMBDA p :
    Luthor_die(p.st, Msg("Unexpected token: ", p.val)))

expectIdentifier(st) ==
  Then(Luthor_peek(st), LAMBDA p :
    IF ~Types_isId(p.val, Undefined)
    THEN Luthor_die(p.st, Msg("Expected an identifier", Undefined))
    ELSE Luthor_next(p.st))

expectOps(st, operators) ==
  Then(Luthor_peek(st), LAMBDA p :
    IF ~Types_isOp(p.val, Undefined) \/ p.val.value \notin operators
    THEN Luthor_die(p.st, Msg("Expected one of these operators: ", Arr(operators)))
    ELSE Luthor_next(p.st))

expectPunc(st, char) ==
  Then(Luthor_peek(st), LAMBDA p :
    IF ~Types_isPunc(p.val, Str(<<char>>))
    THEN Luthor_die(p.st, Msg("Expected \"char\"", Str(<<char>>)))
    ELSE Luthor_next(p.st))

(* The parser's functions call each other recursively: a call of          *)
(* expression() or discrete() from within another function goes through   *)
(* invoke("expression", st) or invoke("discrete", st).                     *)
RECURSIVE invoke(_, _)

(* parserFn() *)
parseElement(parserFn, st) ==
  IF parserFn = "expression" THEN invoke("expression", st) ELSE expectIdentifier(st)

(* the while loop of delimited(), from its test on *)
RECURSIVE delimitedLoop(_, _, _, _, _, _)

(* the loop without its second test for the closing delimiter, the one *)
(* after the separator                                                 *)
delimitedLoopNoTrailing(st, stop, separator, parserFn, body, first) ==
  Then(Luthor_eof(st), LAMBDA eof :
    IF eof.val THEN Ok(eof.st, body)
    ELSE Then(Luthor_peek(eof.st), LAMBDA tok :
      IF Types_isPunc(tok.val, Str(<<stop>>)) THEN Ok(tok.st, body)
      ELSE Then(IF first THEN Ok(tok.st, Undefined) ELSE expectPunc(tok.st, separator),
        LAMBDA sep :
        Then(parseElement(parserFn, sep.st), LAMBDA elem :
          delimitedLoop(elem.st, stop, separator, parserFn,
                        Append(body, elem.val), FALSE)))))

delimitedLoop(st, stop, separator, parserFn, body, first) ==
  Then(Luthor_eof(st), LAMBDA eof :
    IF eof.val THEN Ok(eof.st, body)
    ELSE Then(Luthor_peek(eof.st), LAMBDA tok :
      IF Types_isPunc(tok.val, Str(<<stop>>)) THEN Ok(tok.st, body)
      ELSE Then(IF first THEN Ok(tok.st, Undefined) ELSE expectPunc(tok.st, separator),
        LAMBDA sep :
        Then(Luthor_peek(sep.st), LAMBDA again :
          IF Types_isPunc(again.val, Str(<<stop>>)) THEN Ok(again.st, body)
          ELSE Then(parseElement(parserFn, again.st), LAMBDA elem :
            delimitedLoop(elem.st, stop, separator, parserFn,
                          Append(body, elem.val), FALSE))))))

delimited(st, start, stop, separator, parserFn) ==
  Then(expectPunc(st, start), LAMBDA open :
    Then(delimitedLoop(open.st, stop, separator, parserFn, <<>>, TRUE), LAMBDA body :
      Then(expectPunc(body.st, stop), LAMBDA close :
        Ok(close.st, body.val))))

(* r is the outcome of callable() *)
handleInvocation(r) ==
  Then(r, LAMBDA node :
    Then(Luthor_peek(node.st), LAMBDA p :
      IF Types_isPunc(p.val, Str(<<"(">>))
      THEN Then(delimited(p.st, "(", ")", ",", "expression"), LAMBDA args :
             Ok(args.st, Nodes_invocation(node.val, args.val)))
      ELSE Ok(p.st, node.val)))

RECURSIVE resolveOperatorBindings(_, _, _)

(* climbing that advances past the operator before it compares the *)
(* binding powers                                                   *)
resolveOperatorBindingsEager(st, leftNode, thisPrecedence) ==
  Then(Luthor_peek(st), LAMBDA p :
    IF Types_isOp(p.val, Undefined)
    THEN Then(Luthor_next(p.st), LAMBDA op :
           IF bindsTighter(op.val.value, thisPrecedence)
           THEN Then(invoke("discrete", op.st), LAMBDA d :
                  Then(resolveOperatorBindings(d.st, d.val, PRECEDENCE[op.val.value.v]),
                    LAMBDA rightNode :
                    resolveOperatorBindings(rightNode.st,
                      Nodes_binaryExpression(op.val.value, leftNode, rightNode.val),
                      thisPrecedence)))
           ELSE Ok(op.st, leftNode))
    ELSE Ok(p.st, leftNode))

resolveOperatorBindings(st, leftNode, thisPrecedence) ==
  Then(Luthor_peek(st), LAMBDA p :
    IF Types_isOp(p.val, Undefined) /\ bindsTighter(p.val.value, thisPrecedence)
    THEN Then(Luthor_next(p.st), LAMBDA op :
           Then(invoke("discrete", op.st), LAMBDA d :
             Then(resolveOperatorBindings(d.st, d.val, PRECEDENCE[op.val.value.v]),
               LAMBDA rightNode :
               resolveOperatorBindings(rightNode.st,
                 Nodes_binaryExpression(op.val.value, leftNode, rightNode.val),
                 thisPrecedence))))
    ELSE Ok(p.st, leftNode))

parenthetical(st) ==
  Then(expectPunc(st, "("), LAMBDA open :
    Then(invoke("expression", open.st), LAMBDA exp :
      Then(expectPunc(exp.st, ")"), LAMBDA close :
        Ok(close.st, exp.val))))

(* block() that wraps a single expression as well *)
blockAlwaysWrapped(st) ==
  Then(delimited(st, "{", "}", ";", "expression"), LAMBDA body :
    Ok(body.st, Nodes_blockStatement(body.val)))

block(st) ==
  Then(delimited(st, "{", "}", ";", "expression"), LAMBDA body :
    IF Len(body.val) = 1 THEN Ok(body.st, body.val[1])
    ELSE Ok(body.st, Nodes_blockStatement(body.val)))

(* if (Types.isId(stream.peek())) name = expectIdentifier().value *)
ruleName(p) ==
  IF Types_isId(p.val, Undefined)
  THEN Then(expectIdentifier(p.st), LAMBDA id : Ok(id.st, id.val.value))
  ELSE Ok(p.st, Undefined)

rule(st) ==
  Then(Luthor_next(st), LAMBDA kw :
    Then(Luthor_peek(kw.st), LAMBDA p1 :
      Then(ruleName(p1), LAMBDA name :
        Then(Luthor_peek(name.st), LAMBDA p2 :
          IF ~Types_isPunc(p2.val, Str(<<"(">>))
          THEN Luthor_die(p2.st, Msg("Missing argument list for rule declaration",
                                     Undefined))
          ELSE Then(delimited(p2.st, "(", ")", ",", "expectIdentifier"), LAMBDA args :
            Then(Luthor_peek(args.st), LAMBDA p3 :
              IF ~Types_isPunc(p3.val, Str(<<"{">>))
              THEN Luthor_die(p3.st, Msg("Missing body for rule declaration", Undefined))
              ELSE Then(block(p3.st), LAMBDA body :
                Ok(body.st, Nodes_rule(name.val, args.val, body.val)))))))))

(* the test of signed() with "str" among the types it lets through *)
signedOperandOrString(tok) ==
  IF Types_isPunc(tok, Str(<<"(">>)) THEN [val |-> TRUE, err |-> NoErr]
  ELSE Types_isOneOfType(tok, {"num", "str", "id"})

(* Types.isPunc(token, "(") || Types.isOneOfType(token, ["num", "id"]) *)
signedOperand(tok) ==
  IF Types_isPunc(tok, Str(<<"(">>)) THEN [val |-> TRUE, err |-> NoErr]
  ELSE Types_isOneOfType(tok, {"num", "id"})

negate(sign, d) ==
  IF sign.val.value = Str(<<"-">>)
  THEN Ok(d.st, Nodes_binaryExpression(Str(<<"*">>), Num(<<"-", "1">>), d.val))
  ELSE d

signed(st) ==
  Then(expectOps(st, {Str(<<"-">>), Str(<<"+">>)}), LAMBDA sign :
    Then(Luthor_peek(sign.st), LAMBDA p :
      IF Failed(signedOperand(p.val)) THEN Throw(p.st, signedOperand(p.val).err)
      ELSE IF ~signedOperand(p.val).val
        THEN Luthor_die(p.st, Msg("Expected signed expression", Undefined))
      ELSE Then(invoke("discrete", p.st), LAMBDA d : negate(sign, d))))

(* discrete() that takes the keywords 'true' and 'false' as literals *)
discreteCallableWithBool(st) ==
  Then(Luthor_peek(st), LAMBDA p :
    IF Types_isPunc(p.val, Str(<<"(">>)) THEN parenthetical(p.st)
    ELSE IF Types_isPunc(p.val, Str(<<"{">>)) THEN block(p.st)
    ELSE IF Types_isKw(p.val, Str(<<"r", "u", "l", "e">>)) THEN rule(p.st)
    ELSE IF Types_isOp(p.val, Str(<<"-">>)) \/ Types_isOp(p.val, Str(<<"+">>))
      THEN signed(p.st)
    ELSE IF Types_isKw(p.val, Str(<<"t", "r", "u", "e">>))
            \/ Types_isKw(p.val, Str(<<"f", "a", "l", "s", "e">>))
      THEN Then(Luthor_next(p.st), LAMBDA kw : Ok(kw.st, Nodes_bool(kw.val.value)))
    ELSE IF Failed(Types_isOneOfType(p.val, {"num", "str", "id"}))
      THEN Throw(p.st, Types_isOneOfType(p.val, {"num", "str", "id"}).err)
    ELSE IF Types_isOneOfType(p.val, {"num", "str", "id"}).val THEN Luthor_next(p.st)
    ELSE die(p.st))

(* the function that discrete() hands to handleInvocation *)
discreteCallable(st) ==
  Then(Luthor_peek(st), LAMBDA p :
    IF Types_isPunc(p.val, Str(<<"(">>)) THEN parenthetical(p.st)
    ELSE IF Types_isPunc(p.val, Str(<<"{">>)) THEN block(p.st)
    ELSE IF Types_isKw(p.val, Str(<<"r", "u", "l", "e">>)) THEN rule(p.st)
    ELSE IF Types_isOp(p.val, Str(<<"-">>)) \/ Types_isOp(p.val, Str(<<"+">>))
      THEN signed(p.st)
    ELSE IF Failed(Types_isOneOfType(p.val, {"num", "str", "id"}))
      THEN Throw(p.st, Types_isOneOfType(p.val, {"num", "str", "id"}).err)
    ELSE IF Types_isOneOfType(p.val, {"num", "str", "id"}).val THEN Luthor_next(p.st)
    ELSE die(p.st))

(* discrete() that leaves a following argument list alone *)
discreteNoInvocation(st) == discreteCallable(st)

discrete(st) == handleInvocation(discreteCallable(st))

(* expression() that looks for no argument list of its own *)
expressionNoInvocation(st) ==
  Then(discrete(st), LAMBDA d : resolveOperatorBindings(d.st, d.val, 0))

expression(st) ==
  handleInvocation(Then(discrete(st), LAMBDA d :
    resolveOperatorBindings(d.st, d.val, 0)))

invoke(fn, st) == IF fn = "expression" THEN expression(st) ELSE discrete(st)

----------------------------------------------------------------------------
(* Source texts *)

RECURSIVE Cat(_)
Cat(parts) == IF parts = <<>> THEN <<>> ELSE Head(parts) \o Cat(Tail(parts))

(* the sequences over S of length 0..n *)
SeqsUpTo(S, n) == UNION {[1..k -> S] : k \in 0..n}

SP == <<" ">>

(* what the spec's notation for nodes denotes *)
NumTok(chars) == [type |-> "num", value |-> Num(chars)]

IdTok(chars) == [type |-> "id", value |-> Str(chars)]

StrTok(chars) == [type |-> "str", value |-> Str(chars)]

BinaryExpr(op, left, right) ==
  [type |-> "binaryExpression", op |-> Str(op), left |-> left, right |-> right]

Assign(left, right) ==
  [type |-> "assign", op |-> Str(<<"=">>), left |-> left, right |-> right]

Call(callee, args) == [type |-> "call", func |-> callee, args |-> args]

Rule(name, params, body) ==
  [type |-> "rule", name |-> name, args |-> params, body |-> body]

Block(body) == [type |-> "block", body |-> body]

Leaf(text, node) == [text |-> text, node |-> node]

(* Bounds of the source texts *)
MaxStmts == 3

MaxStrItems == 2

MaxWs == 3

MaxParams == 2

MaxArgs == 2

MaxElems == 3

(* programs e1 ; ... ; en with an optional trailing ';' *)
StmtLeaves == {Leaf(<<"1">>, NumTok(<<"1">>)), Leaf(<<"a">>, IdTok(<<"a">>))}

RECURSIVE JoinTexts(_, _)
JoinTexts(leaves, sep) ==
  IF Len(leaves) = 0 THEN <<>>
  ELSE IF Len(leaves) = 1 THEN leaves[1].text
  ELSE leaves[1].text \o sep \o JoinTexts(Tail(leaves), sep)

NodesOf(leaves) == [i \in 1..Len(leaves) |-> leaves[i].node]

ProgramCases ==
  {[src |-> JoinTexts(es, sep) \o trail, nodes |-> NodesOf(es)] :
     es \in SeqsUpTo(StmtLeaves, MaxStmts) \ {<<>>},
     sep \in {<<";">>, <<" ", ";", " ">>},
     trail \in {<<>>, <<";">>}}

(* string literals: plain characters and backslash escapes between quotes *)
StrItems ==
  {Leaf(<<"a">>, <<"a">>), Leaf(<<"b">>, <<"b">>), Leaf(<<"\\", "\"">>, <<"\"">>),
   Leaf(<<"\\", "\\">>, <<"\\">>), Leaf(<<"\\", "n">>, <<"n">>)}

StringCases ==
  {[src |-> <<"\"">> \o JoinTexts(items, <<>>) \o <<"\"">> \o rest,
    value |-> Cat(NodesOf(items))] :
     items \in SeqsUpTo(StrItems, MaxStrItems),
     rest \in {<<>>, <<" ", "1">>, <<"\n", "\"", "a", "\"">>}}

(* inputs that end where an operand is expected *)
TruncatedInputs ==
  {<<"1", " ", "+">>, <<"-">>, <<"(">>, <<"f", "(", "1", ",">>, <<"+", "(">>,
   <<"a", " ", "=">>, <<"{", "a", ";">>, <<"-", "-">>}

(* whitespace and comments only *)
WsPieces == {<<" ">>, <<"\t">>, <<"\n">>, <<"#", "c">>, <<"#", "\n">>}

WsInputs == {Cat(ps) : ps \in SeqsUpTo(WsPieces, MaxWs)}

(* digit runs with two dots: the text before the second dot, the number it *)
(* denotes, and the text after the second dot                              *)
TwoDotCases ==
  {[src |-> n.text \o <<".">> \o rest, prefix |-> n.text, value |-> n.node] :
     n \in {Leaf(<<"3", ".", "1", "4">>, <<"3", ".", "1", "4">>),
            Leaf(<<"1", ".", "2">>, <<"1", ".", "2">>),
            Leaf(<<"0", "7", ".", "5", "0">>, <<"7", ".", "5">>),
            Leaf(<<"1", "0", ".", "0">>, <<"1", "0">>),
            Leaf(<<"3", ".">>, <<"3">>)},
     rest \in {<<"1", "5">>, <<>>, <<"3", ".", "4">>, <<" ", "1">>}}

(* x op1 y op2 z, and (x op1 y) op2 z *)
XLeaves == {Leaf(<<"1">>, NumTok(<<"1">>)), Leaf(<<"a">>, IdTok(<<"a">>))}

YLeaves == {Leaf(<<"2", ".", "5", "0">>, NumTok(<<"2", ".", "5">>)), Leaf(<<"b">>, IdTok(<<"b">>))}

ZLeaves == {Leaf(<<"3">>, NumTok(<<"3">>)), Leaf(<<"c", "-", "d">>, IdTok(<<"c", "-", "d">>))}

Ops == DOMAIN PRECEDENCE

BinCases ==
  {[src |-> Cat(<<x.text, SP, op1, SP, y.text, SP, op2, SP, z.text>>),
    x |-> x.node, y |-> y.node, z |-> z.node, op1 |-> op1, op2 |-> op2] :
     x \in XLeaves, y \in YLeaves, z \in ZLeaves, op1 \in Ops, op2 \in Ops}

ParenCases ==
  {[src |-> Cat(<<<<"(">>, x.text, SP, op1, SP, y.text, <<")">>, SP, op2, SP, z.text>>),
    x |-> x.node, y |-> y.node, z |-> z.node, op1 |-> op1, op2 |-> op2] :
     x \in XLeaves, y \in YLeaves, z \in ZLeaves, op1 \in Ops, op2 \in Ops}

(* a = x op y *)
AssignCases ==
  {[src |-> Cat(<<<<"a", " ", "=", " ">>, x.text, SP, op, SP, y.text>>),
    x |-> x.node, y |-> y.node, op |-> op] :
     x \in XLeaves, y \in YLeaves, op \in Ops}

(* rule [name] (p1, ..., pk) { body } *)
RuleNames == {Leaf(<<>>, <<>>), Leaf(<<"f", "o", "o">>, <<"f", "o", "o">>)}

ParamNames == {<<"a">>, <<"b">>}

RuleBodies ==
  {Leaf(<<"a">>, IdTok(<<"a">>)),
   Leaf(<<"a", " ", "+", " ", "b">>, BinaryExpr(<<"+">>, IdTok(<<"a">>), IdTok(<<"b">>)))}

RECURSIVE JoinSeqs(_, _)
JoinSeqs(texts, sep) ==
  IF Len(texts) = 0 THEN <<>>
  ELSE IF Len(texts) = 1 THEN texts[1]
  ELSE texts[1] \o sep \o JoinSeqs(Tail(texts), sep)

RuleCases ==
  {[src |-> Cat(<<<<"r", "u", "l", "e">>, sp, n.text, <<"(">>, JoinSeqs(ps, <<",", " ">>),
                  <<")", " ", "{", " ">>, b.text, <<" ", "}">>>>),
    name |-> n.node, params |-> ps, body |-> b.node] :
     n \in RuleNames, ps \in SeqsUpTo(ParamNames, MaxParams), b \in RuleBodies,
     sp \in {<<" ">>}}

(* d(args) and a + d(args), d a discrete expression *)
Callees ==
  {Leaf(<<"f", "o", "o">>, IdTok(<<"f", "o", "o">>)),
   Leaf(<<"1">>, NumTok(<<"1">>)),
   Leaf(<<"(", "a", ")">>, IdTok(<<"a">>)),
   Leaf(<<"(", "a", "*", "2", ")">>, BinaryExpr(<<"*">>, IdTok(<<"a">>), NumTok(<<"2">>))),
   Leaf(<<"{", "a", "}">>, IdTok(<<"a">>)),
   Leaf(<<"{", "a", ";", "b", "}">>, Block(<<IdTok(<<"a">>), IdTok(<<"b">>)>>)),
   Leaf(<<"{", "}">>, Block(<<>>)),
   Leaf(<<"r", "u", "l", "e", "(", "x", ")", "{", "x", "}">>,
        [type |-> "rule", name |-> Undefined, args |-> <<IdTok(<<"x">>)>>,
         body |-> IdTok(<<"x">>)])}

ArgExprs ==
  {Leaf(<<"5">>, NumTok(<<"5">>)),
   Leaf(<<"x", " ", "+", " ", "2">>, BinaryExpr(<<"+">>, IdTok(<<"x">>), NumTok(<<"2">>))),
   Leaf(<<"g", "(", "3", ")">>, Call(IdTok(<<"g">>), <<NumTok(<<"3">>)>>))}

CallCases ==
  {[src |-> Cat(<<pre, d.text, <<"(">>, JoinTexts(as, <<",", " ">>), <<")">>>>),
    operand |-> pre # <<>>, callee |-> d.node, args |-> NodesOf(as)] :
     d \in Callees, as \in SeqsUpTo(ArgExprs, MaxArgs),
     pre \in {<<>>, <<"b", " ", "*", " ">>}}

(* rule name { : the parameter list is missing *)
NoParamsCases ==
  {[src |-> Cat(<<<<"r", "u", "l", "e", " ">>, n, gap.text, <<"{">>, rest>>),
    line |-> gap.node[1], col |-> IF gap.node[1] = 1 THEN 5 + Len(n) + gap.node[2]
                                  ELSE gap.node[2]] :
     n \in {<<"f", "o", "o">>, <<"g">>},
     gap \in {Leaf(<<" ">>, <<1, 1>>), Leaf(<<>>, <<1, 0>>), Leaf(<<" ", " ">>, <<1, 2>>),
              Leaf(<<"\n">>, <<2, 0>>), Leaf(<<"\n", " ">>, <<2, 1>>)},
     rest \in {<<>>, <<" ", "a", " ", "}">>, <<"\n">>}}

(* sign d, d a discrete expression: whether signed() lets d's first token *)
(* through, and the message of the error when it does not                 *)
Negated(d) == BinaryExpr(<<"*">>, Num(<<"-", "1">>), d)

Operand(text, node, accepted) == [text |-> text, node |-> node, accepted |-> accepted]

SignedOperands ==
  {Operand(<<"5">>, NumTok(<<"5">>), TRUE),
   Operand(<<"2", ".", "5">>, NumTok(<<"2", ".", "5">>), TRUE),
   Operand(<<"a">>, IdTok(<<"a">>), TRUE),
   Operand(<<"(", "a", ")">>, IdTok(<<"a">>), TRUE),
   Operand(<<"(", "a", " ", "*", " ", "2", ")">>,
           BinaryExpr(<<"*">>, IdTok(<<"a">>), NumTok(<<"2">>)), TRUE),
   Operand(<<"\"", "s", "\"">>, StrTok(<<"s">>), FALSE),
   Operand(<<"{", "a", "}">>, IdTok(<<"a">>), FALSE),
   Operand(<<"{", "a", ";", "b", "}">>, Block(<<IdTok(<<"a">>), IdTok(<<"b">>)>>), FALSE),
   Operand(<<"r", "u", "l", "e", "(", "x", ")", "{", "x", "}">>,
           [type |-> "rule", name |-> Undefined, args |-> <<IdTok(<<"x">>)>>,
            body |-> IdTok(<<"x">>)], FALSE),
   Operand(<<"-", "5">>, Negated(NumTok(<<"5">>)), FALSE),
   Operand(<<"+", "a">>, IdTok(<<"a">>), FALSE)}

SignedCases ==
  {[src |-> sign \o gap \o d.text, sign |-> sign, d |-> d.node, accepted |-> d.accepted,
    message |-> IF gap = <<>> /\ Head(d.text) \in {"-", "+"}
                THEN "Unexpected token: " ELSE "Expected signed expression"] :
     sign \in {<<"-">>, <<"+">>}, gap \in {<<>>, SP}, d \in SignedOperands}

(* left op y, op an operator that the table PRECEDENCE does not hold *)
UnknownOps ==
  {<<"+", "-">>, <<"*", "*">>, <<"=", ">">>, <<"!">>, <<"~">>, <<"^">>, <<"&">>, <<"|">>,
   <<"<", "<">>, <<"=", "=", "=">>, <<"-", "=">>}

LeftOperands ==
  {Leaf(<<"1">>, NumTok(<<"1">>)),
   Leaf(<<"a", " ">>, IdTok(<<"a">>)),
   Leaf(<<"1", " ", "+", " ", "2">>, BinaryExpr(<<"+">>, NumTok(<<"1">>), NumTok(<<"2">>))),
   Leaf(<<"a", " ", "=", " ", "b", " ", "*", " ", "2", " ">>,
        Assign(IdTok(<<"a">>), BinaryExpr(<<"*">>, IdTok(<<"b">>), NumTok(<<"2">>)))),
   Leaf(<<"f", "(", "1", ")">>, Call(IdTok(<<"f">>), <<NumTok(<<"1">>)>>))}

UnknownOpCases ==
  {[src |-> Cat(<<l.text, op, rest>>), left |-> l.node, op |-> op] :
     l \in LeftOperands, op \in UnknownOps, rest \in {<<"2">>, <<" ", "b">>, <<>>}}

(* { e1 ; ... ; en } with an optional trailing ';' *)
BlockElems ==
  {Leaf(<<"a">>, IdTok(<<"a">>)),
   Leaf(<<"1", " ", "+", " ", "2">>, BinaryExpr(<<"+">>, NumTok(<<"1">>), NumTok(<<"2">>))),
   Leaf(<<"f", "(", "1", ")">>, Call(IdTok(<<"f">>), <<NumTok(<<"1">>)>>)),
   Leaf(<<"{", "b", ";", "c", "}">>, Block(<<IdTok(<<"b">>), IdTok(<<"c">>)>>))}

BlockCases ==
  {[src |-> Cat(<<<<"{">>, pad, JoinTexts(es, sep), IF es = <<>> THEN <<>> ELSE trail,
                  pad, <<"}">>>>),
    elems |-> NodesOf(es), trailing |-> es # <<>> /\ trail # <<>>] :
     es \in SeqsUpTo(BlockElems, MaxElems),
     sep \in {<<";">>, <<" ", ";", "\n">>},
     trail \in {<<>>, <<";">>},
     pad \in {<<>>, SP}}

(* programs that parse() runs its loop on more than once: e1 e2 ; e3 ; ... *)
LoopCases ==
  {[src |-> Cat(<<e.text, SP, JoinTexts(es, sep), trail>>), nodes |-> <<e.node>> \o NodesOf(es)] :
     e \in StmtLeaves, es \in SeqsUpTo(StmtLeaves, MaxStmts) \ {<<>>},
     sep \in {<<";">>, <<" ", ";", " ">>}, trail \in {<<>>, <<";">>, <<" ", "#", "c">>}}

(* a keyword where a discrete expression starts *)
LiteralKeywords ==
  {<<"t", "r", "u", "e">>, <<"f", "a", "l", "s", "e">>, <<"c", "o", "n", "f", "o", "r", "m">>}

KeywordContexts ==
  {<<<<>>, <<>>>>, <<<<>>, <<";">>>>, <<<<>>, <<" ", "+", " ", "1">>>>,
   <<<<"1", " ", "+", " ">>, <<>>>>, <<<<"a", " ", "=", " ">>, <<>>>>,
   <<<<"(">>, <<")">>>>, <<<<"{">>, <<"}">>>>, <<<<"{", "a", ";", " ">>, <<"}">>>>,
   <<<<"f", "(">>, <<")">>>>, <<<<"f", "(", "1", ",", " ">>, <<")">>>>,
   <<<<"1", " ">>, <<>>>>, <<<<"r", "u", "l", "e", "(", ")", "{">>, <<"}">>>>}

KeywordCases ==
  {[src |-> Cat(<<ctx[1], kw, ctx[2]>>), kw |-> kw] :
     kw \in LiteralKeywords, ctx \in KeywordContexts}

(* an operand followed by 1..4 argument lists (1)(2)(3)(4): the operand is *)
(* the primary p, with or without a sign, with or without an operator     *)
(* expression to its left                                                 *)
ArgList(i) == <<<<"(", "1", ")">>, <<"(", "2", ")">>, <<"(", "3", ")">>, <<"(", "4", ")">>>>[i]

ArgNode(i) == <<NumTok(<<"1">>), NumTok(<<"2">>), NumTok(<<"3">>), NumTok(<<"4">>)>>[i]

Chained(text, primary, sign, wrap) ==
  [text |-> text, primary |-> primary, sign |-> sign, wrap |-> wrap]

ChainHeads ==
  {Chained(<<"f">>, IdTok(<<"f">>), "", "none"),
   Chained(<<"(", "g", ")">>, IdTok(<<"g">>), "", "none"),
   Chained(<<"{", "g", "}">>, IdTok(<<"g">>), "", "none"),
   Chained(<<"a", " ", "+", " ", "b">>, IdTok(<<"b">>), "", "plus"),
   Chained(<<"a", " ", "=", " ", "b">>, IdTok(<<"b">>), "", "assign"),
   Chained(<<"-", "f">>, IdTok(<<"f">>), "-", "none"),
   Chained(<<"+", "f">>, IdTok(<<"f">>), "+", "none"),
   Chained(<<"-", "(", "g", ")">>, IdTok(<<"g">>), "-", "none"),
   Chained(<<"a", " ", "+", " ", "-", "b">>, IdTok(<<"b">>), "-", "plus")}

ChainCases ==
  {[src |-> h.text \o Cat([i \in 1..k |-> ArgList(i)]), head |-> h, lists |-> k] :
     h \in ChainHeads, k \in 1..4}

(* lists of elements between '(' and ')': plain, with a trailing ',', with *)
(* a leading ',' and with the first ',' doubled                            *)
Layouts == {"plain", "trailing", "leading", "doubled"}

Laid(texts, layout) ==
  IF layout = "plain" THEN JoinSeqs(texts, <<",", " ">>)
  ELSE IF layout = "trailing" THEN JoinSeqs(texts, <<",", " ">>) \o <<",">>
  ELSE IF layout = "leading" THEN <<",">> \o JoinSeqs(texts, <<",", " ">>)
  ELSE Head(texts) \o <<",", ",">> \o JoinSeqs(Tail(texts), <<",", " ">>)

SepArgs ==
  {Leaf(<<"a">>, IdTok(<<"a">>)),
   Leaf(<<"b", " ", "+", " ", "1">>, BinaryExpr(<<"+">>, IdTok(<<"b">>), NumTok(<<"1">>)))}

TextsOf(leaves) == [i \in 1..Len(leaves) |-> leaves[i].text]

SepCallCases ==
  {[src |-> Cat(<<<<"f", "(">>, Laid(TextsOf(as), layout), <<")">>>>),
    node |-> Call(IdTok(<<"f">>), NodesOf(as)), layout |-> layout] :
     as \in SeqsUpTo(SepArgs, MaxArgs) \ {<<>>}, layout \in Layouts}

SepRuleCases ==
  {[src |-> Cat(<<<<"r", "u", "l", "e", " ", "r", "(">>, Laid(ps, layout),
                  <<")", " ", "{", " ", "x", " ", "}">>>>),
    node |-> Rule(Str(<<"r">>), [i \in 1..Len(ps) |-> IdTok(ps[i])], IdTok(<<"x">>)),
    layout |-> layout] :
     ps \in SeqsUpTo(ParamNames, MaxParams) \ {<<>>}, layout \in Layouts}

SepCases == SepCallCases \cup SepRuleCases

SrcOf(cases) == {c.src : c \in cases}

Inputs ==
  SrcOf(ProgramCases) \cup SrcOf(StringCases) \cup TruncatedInputs \cup WsInputs
  \cup SrcOf(TwoDotCases) \cup SrcOf(BinCases) \cup SrcOf(ParenCases)
  \cup SrcOf(AssignCases) \cup SrcOf(RuleCases) \cup SrcOf(CallCases)
  \cup SrcOf(NoParamsCases) \cup SrcOf(SignedCases)
  \cup SrcOf(UnknownOpCases) \cup SrcOf(BlockCases)
  \cup SrcOf(LoopCases) \cup SrcOf(KeywordCases)
  \cup SrcOf(ChainCases) \cup SrcOf(SepCases)

LexInputs ==
  SrcOf(ProgramCases) \cup SrcOf(StringCases) \cup TruncatedInputs \cup WsInputs
  \cup SrcOf(TwoDotCases) \cup SrcOf(NoParamsCases)

----------------------------------------------------------------------------
(* The program: new Parsicle(new Luthor(new CharStream(content))).parse(), *)
(* one step per statement of parse(); and, for the lexer alone, a caller   *)
(* of the Luthor's peek(), eof() and next().                               *)

(* what the caller of the Luthor has got from peek() and from eof() since *)
(* its last call of next(): nothing yet                                   *)
NotSeen == [peek |-> <<>>, eof |-> <<>>]

Init ==
  /\ \E src \in Inputs : stream = CharStream(src)
  /\ ast = <<>>
  /\ tokens = <<>>
  /\ pc = "parse"
  /\ error = NoErr
  /\ seen = NotSeen

(* the outcome r of a statement of parse(): on an exception parse() fails, *)
(* otherwise the node is pushed onto ast                                   *)
Push(r) ==
  /\ stream' = r.st
  /\ IF Failed(r)
     THEN /\ pc' = "failed" /\ error' = r.err /\ ast' = ast
     ELSE /\ pc' = "loop" /\ error' = error /\ ast' = Append(ast, r.val)
  /\ UNCHANGED <<tokens, seen>>

(* ast.push(expression()) *)
ParseFirst ==
  /\ pc = "parse"
  /\ Push(invoke("expression", stream))

(* the test of while (!stream.eof()) lets the body run (or throws) *)
LoopEntered(eof) == Failed(eof) \/ ~eof.val

(* a loop body that looks at the next token and leaves it in the stream *)
loopBodyLooksOnly(st) ==
  Then(Luthor_eof(st), LAMBDA eof : Luthor_peek(eof.st))

(* ast.push(expression()); if (!stream.eof()) expectPunc(";") *)
loopBody(st) ==
  Then(Luthor_eof(st), LAMBDA eof :
    Then(invoke("expression", eof.st), LAMBDA e :
      Then(Luthor_eof(e.st), LAMBDA eof2 :
        Then(IF eof2.val THEN eof2 ELSE expectPunc(eof2.st, ";"), LAMBDA semi :
          Ok(semi.st, e.val)))))

(* one iteration of while (!stream.eof()) *)
ParseLoop ==
  /\ pc = "loop"
  /\ LoopEntered(Luthor_eof(stream))
  /\ Push(loopBody(stream))

LoopLeft(eof) ==
  /\ ~Failed(eof)
  /\ eof.val
  /\ stream' = eof.st

(* the loop ends and parse() returns ast *)
ParseReturn ==
  /\ pc = "loop"
  /\ LoopLeft(Luthor_eof(stream))
  /\ pc' = "done"
  /\ UNCHANGED <<ast, tokens, error, seen>>

Next == ParseFirst \/ ParseLoop \/ ParseReturn

Spec == Init /\ [][Next]_vars

(* parse() has a statement to run *)
Running == pc \in {"parse", "loop"}

(* parse() runs on while it has a statement to run: it is synchronous and *)
(* nothing suspends it. This is weak fairness of Next, a step of Next     *)
(* being possible exactly when Running holds.                             *)
LiveSpec == Spec /\ ([]<>(~Running) \/ []<><<Next>>_vars)

(* The lexer alone *)

LexInit ==
  /\ \E src \in LexInputs : stream = CharStream(src)
  /\ ast = <<>>
  /\ tokens = <<>>
  /\ pc = "lex"
  /\ error = NoErr
  /\ seen = NotSeen

(* the outcome r of stream.next(): the token is kept in tokens, null ends *)
(* the run                                                                *)
Keep(r) ==
  /\ stream' = r.st
  /\ IF Failed(r)
     THEN /\ pc' = "failed" /\ error' = r.err /\ tokens' = tokens
     ELSE IF r.val = Null
     THEN /\ pc' = "end" /\ error' = error /\ tokens' = tokens
     ELSE /\ pc' = pc /\ error' = error /\ tokens' = Append(tokens, r.val)
  /\ seen' = NotSeen
  /\ UNCHANGED ast

(* stream.next() *)
TokNext ==
  /\ pc = "lex"
  /\ Keep(Luthor_next(stream))

(* the outcome r of stream.peek() or stream.eof(): the caller has seen *)
(* the value returned                                                 *)
Looked(r, call) ==
  /\ stream' = r.st
  /\ IF Failed(r)
     THEN /\ pc' = "failed" /\ error' = r.err /\ seen' = seen
     ELSE /\ pc' = pc /\ error' = error /\ seen' = [seen EXCEPT ![call] = <<r.val>>]
  /\ UNCHANGED <<ast, tokens>>

(* stream.peek() *)
TokPeek ==
  /\ pc = "lex"
  /\ Looked(Luthor_peek(stream), "peek")

(* stream.eof() *)
TokEof ==
  /\ pc = "lex"
  /\ Looked(Luthor_eof(stream), "eof")

LexNext == TokNext \/ TokPeek \/ TokEof

LexSpec == LexInit /\ [][LexNext]_vars

----------------------------------------------------------------------------
(* Claims *)

Returned == pc \in {"done", "failed"}

(* C1: parse() accepts e1 ; e2 ; ... ; en (n >= 1) with an optional trailing *)
(* ';' and returns exactly the n expression nodes in source order.            *)
C1_ProgramParses ==
  \A c \in ProgramCases :
    (stream.src = c.src /\ Returned) => (pc = "done" /\ ast = c.nodes)

(* C2: the value of a string token is exactly the characters between the    *)
(* quotes, each backslash removed and the character after it kept; none of  *)
(* the content is lost.                                                     *)
C2_StringValue ==
  \A c \in StringCases :
    (stream.src = c.src /\ Len(tokens) >= 1) => tokens[1] = StrTok(c.value)

(* C3: every failure of parse() is the syntax error raised through the     *)
(* Source Cursor's die, also when the input ends where an operand is       *)
(* expected.                                                               *)
C3_SingleErrorKind ==
  pc = "failed" =>
    /\ error.name = "IllegalSyntaxError"
    /\ error.line = stream.line
    /\ error.col = stream.col

(* C4: for an input of whitespace and comments only, the empty input       *)
(* included, parse() returns an empty sequence of nodes.                   *)
C4_BlankProgramIsEmpty ==
  (stream.src \in WsInputs /\ Returned) => (pc = "done" /\ ast = <<>>)

(* C5, as claimed: after the number up to the second '.', the second '.'   *)
(* is produced as a separate following token and causes no failure.        *)
C5_SecondDotIsAToken ==
  \A c \in TwoDotCases :
    stream.src = c.src =>
      /\ Len(tokens) >= 1 => tokens[1] = NumTok(c.value)
      /\ pc # "failed"
      /\ pc = "end" => Len(tokens) >= 2

(* C5, amended: the number token is the part before the second '.', which  *)
(* the number does not consume; reading the token after it then fails with *)
(* the "Illegal character" syntax error at the position of the second '.'. *)
C5_SecondDotStopsTheNumber ==
  \A c \in TwoDotCases :
    stream.src = c.src =>
      /\ Len(tokens) <= 1
      /\ Len(tokens) = 1 => tokens[1] = NumTok(c.value) /\ stream.pos = Len(c.prefix)
      /\ pc # "end"
      /\ pc = "failed" =>
           /\ Len(tokens) = 1
           /\ error = IllegalSyntaxError(1, Len(c.prefix),
                        Msg("Illegal character at this position: ", Str(<<".">>)))

C5_Witness ==
  \E c \in TwoDotCases :
    /\ stream.src = c.src
    /\ pc = "failed"
    /\ tokens = <<NumTok(c.value)>>

(* the node that combines left and right under op: an Assign for '=' *)
Combined(op, left, right) ==
  IF op = <<"=">> THEN Assign(left, right) ELSE BinaryExpr(op, left, right)

(* C6, as claimed: 'x op1 y op2 z' with op2 binding tighter than op1 yields *)
(* BinaryExpr(op1, x, BinaryExpr(op2, y, z)), and '(x op1 y) op2 z' yields  *)
(* BinaryExpr(op2, BinaryExpr(op1, x, y), z), for all operators of the      *)
(* binding-power table.                                                     *)
C6_PrecedenceNesting ==
  /\ \A c \in BinCases :
       (stream.src = c.src /\ Returned /\ PRECEDENCE[c.op2] > PRECEDENCE[c.op1]) =>
         /\ pc = "done"
         /\ ast = <<BinaryExpr(c.op1, c.x, BinaryExpr(c.op2, c.y, c.z))>>
  /\ \A c \in ParenCases :
       (stream.src = c.src /\ Returned) =>
         /\ pc = "done"
         /\ ast = <<BinaryExpr(c.op2, BinaryExpr(c.op1, c.x, c.y), c.z)>>

(* C6, amended: the same nesting, where the node of an operator '=' is an  *)
(* Assign and not a BinaryExpr.                                            *)
C6_PrecedenceNestingTagged ==
  /\ \A c \in BinCases :
       (stream.src = c.src /\ Returned /\ PRECEDENCE[c.op2] > PRECEDENCE[c.op1]) =>
         /\ pc = "done"
         /\ ast = <<Combined(c.op1, c.x, Combined(c.op2, c.y, c.z))>>
  /\ \A c \in ParenCases :
       (stream.src = c.src /\ Returned) =>
         /\ pc = "done"
         /\ ast = <<Combined(c.op2, Combined(c.op1, c.x, c.y), c.z)>>

C6_Witness ==
  \E c \in BinCases :
    /\ stream.src = c.src
    /\ pc = "done"
    /\ c.op1 = <<"+">> /\ c.op2 = <<"*">>
    /\ ast = <<BinaryExpr(c.op1, c.x, BinaryExpr(c.op2, c.y, c.z))>>

(* a combined node is an assignment exactly when its operator is '=' *)
RECURSIVE TaggedByOperator(_)
TaggedByOperator(n) ==
  IF "type" \notin DOMAIN n THEN TRUE
  ELSE IF n.type \in {"assign", "binaryExpression"}
    THEN /\ n.type = "assign" <=> n.op = Str(<<"=">>)
         /\ TaggedByOperator(n.left)
         /\ TaggedByOperator(n.right)
  ELSE IF n.type = "call"
    THEN /\ TaggedByOperator(n.func)
         /\ \A i \in 1..Len(n.args) : TaggedByOperator(n.args[i])
  ELSE IF n.type = "rule" THEN TaggedByOperator(n.body)
  ELSE IF n.type = "block" THEN \A i \in 1..Len(n.body) : TaggedByOperator(n.body[i])
  ELSE TRUE

(* C7: 'a = x op y' parses to Assign(a, BinaryExpr(op, x, y)) for every    *)
(* operator op of the table but '=', and a combined node is an assignment  *)
(* exactly when its operator is '='.                                       *)
C7_AssignBindsLoosest ==
  /\ \A c \in AssignCases :
       (stream.src = c.src /\ Returned /\ c.op # <<"=">>) =>
         /\ pc = "done"
         /\ ast = <<Assign(IdTok(<<"a">>), BinaryExpr(c.op, c.x, c.y))>>
  /\ \A i \in 1..Len(ast) : TaggedByOperator(ast[i])

C7_Witness ==
  \E c \in AssignCases :
    /\ stream.src = c.src
    /\ pc = "done"
    /\ c.op = <<"=", "=">>
    /\ ast[1].type = "assign"
    /\ ast[1].right.type = "binaryExpression"

(* C8: 'rule [name] (p1, ..., pk) { body }' parses to a Rule node whose    *)
(* name is the identifier's string (absent when anonymous), whose params   *)
(* are the names p1..pk as strings in order, and whose body is the block's *)
(* single expression.                                                      *)
C8_RuleNode ==
  \A c \in RuleCases :
    (stream.src = c.src /\ Returned) =>
      /\ pc = "done"
      /\ ast = <<Rule(IF c.name = <<>> THEN Undefined ELSE Str(c.name),
                      [i \in 1..Len(c.params) |-> Str(c.params[i])],
                      c.body)>>

(* C9: a discrete node that is immediately followed by '(' is wrapped in a *)
(* Call whose callee is that node and whose args are the argument          *)
(* expressions, fully parsed, in source order.                             *)
C9_CallWrapsDiscrete ==
  \A c \in CallCases :
    (stream.src = c.src /\ Returned) =>
      /\ pc = "done"
      /\ ast = <<IF c.operand
                 THEN BinaryExpr(<<"*">>, IdTok(<<"b">>), Call(c.callee, c.args))
                 ELSE Call(c.callee, c.args)>>

C9_Witness ==
  \E c \in CallCases :
    /\ stream.src = c.src
    /\ pc = "done"
    /\ c.operand
    /\ Len(c.args) >= 2
    /\ ast[1].right = Call(c.callee, c.args)

MissingArgumentList == "Missing argument list for rule declaration"

(* C10, as claimed: 'rule foo {' fails with the syntax error "Missing      *)
(* argument list" whose line and column are the position of the '{'.       *)
C10_ErrorAtTheBrace ==
  \A c \in NoParamsCases :
    (stream.src = c.src /\ Returned) =>
      /\ pc = "failed"
      /\ error.name = "IllegalSyntaxError"
      /\ error.message.text = MissingArgumentList
      /\ error.line = c.line
      /\ error.col = c.col

(* C10, amended: the error's line and column are the position just past    *)
(* the '{', one column to its right: the '{' has been read as lookahead.   *)
C10_ErrorPastTheBrace ==
  \A c \in NoParamsCases :
    (stream.src = c.src /\ Returned) =>
      /\ pc = "failed"
      /\ error.name = "IllegalSyntaxError"
      /\ error.message.text = MissingArgumentList
      /\ error.line = c.line
      /\ error.col = c.col + 1

C10_Witness ==
  \E c \in NoParamsCases :
    /\ stream.src = c.src
    /\ pc = "failed"
    /\ error.message.text = MissingArgumentList
    /\ c.line = 2
    /\ error.col = c.col + 1

(* C11, as claimed: a sign followed by any discrete expression d (number,  *)
(* string, identifier, parenthesized expression, block, rule declaration   *)
(* or another signed expression) is accepted: '-' d parses to              *)
(* BinaryExpr('*', -1, d) and '+' d parses to d.                           *)
C11_AnyDiscreteSigned ==
  \A c \in SignedCases :
    (stream.src = c.src /\ Returned) =>
      /\ pc = "done"
      /\ ast = <<IF c.sign = <<"-">> THEN Negated(c.d) ELSE c.d>>

(* C11, amended: a sign followed by a number, an identifier or a           *)
(* parenthesized expression d is accepted, '-' d parsing to                *)
(* BinaryExpr('*', -1, d) with the number -1 as left operand and '+' d to  *)
(* d; a sign followed by a string, a block, a rule declaration or another  *)
(* sign is rejected with a syntax error.                                   *)
C11_SignedOperand ==
  \A c \in SignedCases :
    (stream.src = c.src /\ Returned) =>
      IF c.accepted
      THEN /\ pc = "done"
           /\ ast = <<IF c.sign = <<"-">> THEN Negated(c.d) ELSE c.d>>
      ELSE /\ pc = "failed"
           /\ ast = <<>>
           /\ error.name = "IllegalSyntaxError"
           /\ error.message.text = c.message

C11_Witness ==
  \E c \in SignedCases :
    /\ stream.src = c.src
    /\ c.sign = <<"-">>
    /\ c.accepted
    /\ pc = "done"
    /\ ast = <<Negated(BinaryExpr(<<"*">>, IdTok(<<"a">>), NumTok(<<"2">>)))>>

(* the run of next() calls alone from the state st on: the tokens they *)
(* return and the exception that ends them, if any                     *)
RECURSIVE nextOnly(_, _)

nextOnlyFrom(r, toks) ==
  IF Failed(r) THEN [tokens |-> toks, err |-> r.err]
  ELSE IF r.val = Null THEN [tokens |-> toks, err |-> NoErr]
  ELSE nextOnly(r.st, Append(toks, r.val))

nextOnly(st, toks) == nextOnlyFrom(Luthor_next(st), toks)

IsPrefix(s, t) == Len(s) <= Len(t) /\ s = SubSeq(t, 1, Len(s))

(* the tokens got from next() are those of a run without peek() and eof() *)
SameAsNextOnly(all) ==
  /\ IsPrefix(tokens, all.tokens)
  /\ pc = "end" => (tokens = all.tokens /\ all.err = NoErr)
  /\ pc = "failed" => (tokens = all.tokens /\ error = all.err)

(* eof() is true exactly when peek() yields end *)
EofIffPeekIsEnd ==
  (seen.peek # <<>> /\ seen.eof # <<>>) => (seen.eof[1] <=> seen.peek[1] = Null)

(* a peek() after a peek() with no next() between returns the same token *)
(* and reads nothing                                                     *)
PeekIsStable ==
  (seen.peek # <<>> /\ seen'.peek # <<>>) => (seen'.peek = seen.peek /\ stream' = stream)

(* next() returns what the peek() before it returned *)
NextReturnsPeeked ==
  (seen.peek # <<>> /\ seen'.peek = <<>>) =>
    IF seen.peek[1] = Null THEN pc' = "end" /\ tokens' = tokens
    ELSE tokens' = Append(tokens, seen.peek[1])

(* C12: for every input and every interleaving of peek(), eof() and next() *)
(* of the Luthor: two peek() calls with no next() between return the same  *)
(* token, next() returns the token the preceding peek() returned, eof() is *)
(* true exactly when peek() yields end, and the tokens returned by next()  *)
(* are those of a run in which peek() and eof() are never called.          *)
C12_Lookahead ==
  /\ [](EofIffPeekIsEnd /\ SameAsNextOnly(nextOnly(CharStream(stream.src), <<>>)))
  /\ [][PeekIsStable /\ NextReturnsPeeked]_vars

C12_Witness ==
  /\ Len(tokens) >= 2
  /\ seen.peek # <<>> /\ seen.peek[1] # Null
  /\ seen.eof = <<FALSE>>

(* the characters of the input that the cursor at position pos has consumed *)
Consumed(st) == SubSeq(st.src, 1, IF st.pos < Len(st.src) THEN st.pos ELSE Len(st.src))

Newlines(s) == {i \in 1..Len(s) : s[i] = "\n"}

(* the characters of s after its last newline *)
SinceNewline(s) == {i \in 1..Len(s) : \A j \in Newlines(s) : j < i}

(* C13: after any sequence of next() calls of the Source Cursor on an     *)
(* input s the position never moves backward, line is 1 plus the number   *)
(* of newlines consumed and column is the number of characters of s       *)
(* consumed since the last consumed newline; a next() at end of input     *)
(* consumes nothing and leaves position, line and column unchanged.       *)
C13_CursorCountsConsumed ==
  /\ [](/\ stream.pos <= Len(stream.src)
        /\ stream.line = 1 + Cardinality(Newlines(Consumed(stream)))
        /\ stream.col = Cardinality(SinceNewline(Consumed(stream))))
  /\ [][stream'.pos >= stream.pos]_vars

(* C14: when the token after a left operand is an operator that is not in *)
(* the precedence table, precedence climbing raises no error and does not *)
(* consume it: the first expression of parse() is the left operand        *)
(* unchanged and the operator token stays the stream's next token.        *)
C14_UnknownOperatorStays ==
  \A c \in UnknownOpCases :
    (stream.src = c.src /\ pc # "parse") =>
      /\ ast = <<c.left>>
      /\ pc = "loop" => stream.current = Tokens_operator(Str(c.op))

C14_Witness ==
  \E c \in UnknownOpCases :
    /\ stream.src = c.src
    /\ c.op = <<"+", "-">>
    /\ pc = "loop"
    /\ ast = <<BinaryExpr(<<"+">>, NumTok(<<"1">>), NumTok(<<"2">>))>>
    /\ stream.current = Tokens_operator(Str(<<"+", "-">>))

(* C15: a block '{ e1 ; ... ; en }', with an optional trailing ';', yields *)
(* the node of e1 itself when n = 1 and otherwise (n = 0 or n >= 2) a      *)
(* Block node whose body is the n parsed expressions in source order.      *)
C15_BlockCollapsesSingle ==
  \A c \in BlockCases :
    (stream.src = c.src /\ Returned) =>
      /\ pc = "done"
      /\ ast = <<IF Len(c.elems) = 1 THEN c.elems[1] ELSE Block(c.elems)>>

C15_Witness ==
  \E c \in BlockCases :
    /\ stream.src = c.src
    /\ pc = "done"
    /\ Len(c.elems) = 1
    /\ c.trailing
    /\ ast = <<Call(IdTok(<<"f">>), <<NumTok(<<"1">>)>>)>>

(* what the parser has consumed: the characters read, less the token that *)
(* is read ahead and not yet taken                                        *)
Progress(st) == 2 * st.pos - (IF st.current # Null THEN 1 ELSE 0)

(* C16: for every finite input parse() terminates, returning the nodes or *)
(* raising an error: every iteration of its loop that does not end it     *)
(* consumes input, and the input is finite.                               *)
C16_ParseTerminates ==
  /\ <>Returned
  /\ [][(pc = "loop" /\ pc' = "loop") => Progress(stream') > Progress(stream)]_vars
  /\ [](stream.pos <= Len(stream.src) + 1)

C16_Witness ==
  \E c \in LoopCases :
    /\ stream.src = c.src
    /\ pc = "done"
    /\ Len(ast) > MaxStmts
    /\ ast = c.nodes

(* C17: operators of equal binding power associate to the left:           *)
(* 'x op1 y op2 z' with equal powers yields                               *)
(* BinaryExpr(op2, BinaryExpr(op1, x, y), z), and so for '=' as well:     *)
(* 'a = b = c' yields Assign(Assign(a, b), c).                            *)
C17_EqualPowerAssociatesLeft ==
  \A c \in BinCases :
    (stream.src = c.src /\ Returned /\ PRECEDENCE[c.op1] = PRECEDENCE[c.op2]) =>
      /\ pc = "done"
      /\ ast = <<Combined(c.op2, Combined(c.op1, c.x, c.y), c.z)>>

C17_Witness ==
  \E c \in BinCases :
    /\ stream.src = c.src
    /\ pc = "done"
    /\ c.op1 = <<"=">> /\ c.op2 = <<"=">>
    /\ ast = <<Assign(Assign(c.x, c.y), c.z)>>

(* the node n is, or holds, a boolean-literal node *)
RECURSIVE HoldsBool(_)
HoldsBool(n) ==
  IF "type" \notin DOMAIN n THEN FALSE
  ELSE IF n.type = "bool" THEN TRUE
  ELSE IF n.type \in {"assign", "binaryExpression"}
    THEN HoldsBool(n.left) \/ HoldsBool(n.right)
  ELSE IF n.type = "call"
    THEN HoldsBool(n.func) \/ \E i \in 1..Len(n.args) : HoldsBool(n.args[i])
  ELSE IF n.type = "rule" THEN HoldsBool(n.body)
  ELSE IF n.type = "block" THEN \E i \in 1..Len(n.body) : HoldsBool(n.body[i])
  ELSE FALSE

(* C18: no input makes parse() produce a boolean-literal node, and a      *)
(* keyword 'true', 'false' or 'conform' where a discrete expression       *)
(* starts aborts the parse with the 'Unexpected token' syntax error.      *)
C18_KeywordsAreRejected ==
  /\ \A i \in 1..Len(ast) : ~HoldsBool(ast[i])
  /\ \A c \in KeywordCases :
       (stream.src = c.src /\ Returned) =>
         /\ pc = "failed"
         /\ error.name = "IllegalSyntaxError"
         /\ error.message = Msg("Unexpected token: ", Tokens_keyword(Str(c.kw)))

C18_Witness ==
  \E c \in KeywordCases :
    /\ stream.src = c.src
    /\ c.kw = <<"t", "r", "u", "e">>
    /\ pc = "failed"
    /\ ast = <<NumTok(<<"1">>)>>
    /\ error.message = Msg("Unexpected token: ", Tokens_keyword(Str(c.kw)))

Signed(sign, d) == IF sign = "-" THEN Negated(d) ELSE d

Wrapped(wrap, d) ==
  IF wrap = "plus" THEN BinaryExpr(<<"+">>, IdTok(<<"a">>), d)
  ELSE IF wrap = "assign" THEN Assign(IdTok(<<"a">>), d)
  ELSE d

(* the first list is attached to the operand, the second to the whole *)
(* operator expression, and the lists from the third on are the next  *)
(* statement                                                          *)
TwoListsAtMost(h, k) ==
  IF k = 1 THEN <<Wrapped(h.wrap, Signed(h.sign, Call(h.primary, <<ArgNode(1)>>)))>>
  ELSE <<Call(Wrapped(h.wrap, Signed(h.sign, Call(h.primary, <<ArgNode(1)>>))),
              <<ArgNode(2)>>)>>
       \o (IF k = 3 THEN <<ArgNode(3)>>
           ELSE IF k = 4 THEN <<Call(ArgNode(3), <<ArgNode(4)>>)>>
           ELSE <<>>)

(* after a signed operand: the first list is attached to the operand, the *)
(* second to the signed node, the third to the whole operator expression, *)
(* and the fourth is the next statement                                   *)
ThreeListsAtMost(h, k) ==
  IF k = 1 THEN <<Wrapped(h.wrap, Signed(h.sign, Call(h.primary, <<ArgNode(1)>>)))>>
  ELSE IF k = 2
    THEN <<Wrapped(h.wrap, Call(Signed(h.sign, Call(h.primary, <<ArgNode(1)>>)),
                                <<ArgNode(2)>>))>>
  ELSE <<Call(Wrapped(h.wrap, Call(Signed(h.sign, Call(h.primary, <<ArgNode(1)>>)),
                                   <<ArgNode(2)>>)),
              <<ArgNode(3)>>)>>
       \o (IF k = 4 THEN <<ArgNode(4)>> ELSE <<>>)

(* C19, as claimed: one expression consumes at most two consecutive       *)
(* argument lists, the first attached to the operand it follows, the      *)
(* second to the whole operator expression; a third is not part of the    *)
(* expression: 'f(1)(2)(3)' yields Call(Call(f,[1]),[2]) and then 3.      *)
C19_TwoArgumentLists ==
  \A c \in ChainCases :
    (stream.src = c.src /\ Returned) =>
      /\ pc = "done"
      /\ ast = TwoListsAtMost(c.head, c.lists)

(* C19, amended: that holds after an operand without a sign; after a      *)
(* signed operand the expression consumes up to three consecutive         *)
(* argument lists, the second being attached to the signed node by the    *)
(* discrete() that encloses it, and the fourth is not part of the         *)
(* expression.                                                            *)
C19_ThreeAfterSigned ==
  \A c \in ChainCases :
    (stream.src = c.src /\ Returned) =>
      /\ pc = "done"
      /\ ast = IF c.head.sign = "" THEN TwoListsAtMost(c.head, c.lists)
               ELSE ThreeListsAtMost(c.head, c.lists)

C19_Witness ==
  \E c \in ChainCases :
    /\ stream.src = c.src
    /\ pc = "done"
    /\ c.head.sign = "-" /\ c.head.wrap = "none"
    /\ c.lists = 3
    /\ ast = <<Call(Call(Negated(Call(c.head.primary, <<ArgNode(1)>>)), <<ArgNode(2)>>),
                    <<ArgNode(3)>>)>>

(* C20: delimited() accepts one trailing separator before the closing     *)
(* delimiter and no empty element elsewhere: 'f(a, b,)' and               *)
(* 'rule r(a, b,) {...}' parse to the same node as without the trailing   *)
(* ',', while a leading or a doubled separator fails with a syntax error. *)
C20_TrailingSeparatorOnly ==
  \A c \in SepCases :
    (stream.src = c.src /\ Returned) =>
      IF c.layout \in {"plain", "trailing"}
      THEN pc = "done" /\ ast = <<c.node>>
      ELSE pc = "failed" /\ ast = <<>> /\ error.name = "IllegalSyntaxError"

C20_Witness ==
  \E c \in SepRuleCases :
    /\ stream.src = c.src
    /\ c.layout = "trailing"
    /\ pc = "done"
    /\ Len(ast[1].args) = MaxParams
    /\ ast = <<c.node>>

====
